---- MODULE Spec2Model ----
(***************************************************************************)
(* Finding aggregation and scoring pipeline of the Cyber Health Audit      *)
(* Agent: scanner/scorer.py (score_findings) and scanner/osv_client.py     *)
(* (OSVClient.flatten_vulns), as driven by app.py.                         *)
(*                                                                         *)
(* Python dicts are modelled as TLA+ records; a key that a dict does not   *)
(* carry is a field the record does not have, so d.get(k, default) is      *)
(* Get(d, k, default).  Python lists are sequences.  A JSON value of a     *)
(* severity signal's "score" is a tagged record: a string (a sequence of   *)
(* characters), a number (in tenths) or null.                              *)
(***************************************************************************)
EXTENDS Integers, Sequences, FiniteSets, TLC

VARIABLES vulns, secrets, configs, result, prevResult, lastCall,
          batch, flat, flatTwice, content, run

vars == <<vulns, secrets, configs, result, prevResult, lastCall,
          batch, flat, flatTwice, content, run>>

scoreVars == <<vulns, secrets, configs, result, prevResult, lastCall>>
flattenVars == <<batch, flat, flatTwice>>

(***************************************************************************)
(* Bounds of the model.                                                    *)
(***************************************************************************)
MaxLen == 3
MaxSignals == 3
MaxBatch == 3
MaxAdvisories == 3
MaxUnknown == 2

\* The value of a variable that holds nothing yet (Python: not yet bound).
None == [none |-> TRUE]

\* dict.get(key, default)
Get(d, key, default) == IF key \in DOMAIN d THEN d[key] ELSE default

(***************************************************************************)
(* float(x) as sev_from_cvss uses it.  A string parses when it is a run of *)
(* decimal digits with at most one "." and at least one digit; the value   *)
(* is the exact rational num / den.  A number converts to itself; null     *)
(* raises TypeError, any other string raises ValueError.                   *)
(***************************************************************************)
Digits == {"0", "1", "2", "3", "4", "5", "6", "7", "8", "9"}

DigitVal(c) ==
  CASE c = "0" -> 0 [] c = "1" -> 1 [] c = "2" -> 2 [] c = "3" -> 3
    [] c = "4" -> 4 [] c = "5" -> 5 [] c = "6" -> 6 [] c = "7" -> 7
    [] c = "8" -> 8 [] c = "9" -> 9

ParseError == [ok |-> FALSE, num |-> 0, den |-> 1]

\* Scans text from position i; num/den is the value read so far, dot tells
\* whether the "." was passed, n counts the digits read.
RECURSIVE ParseFrom(_, _, _, _, _, _)
ParseFrom(text, i, num, den, dot, n) ==
  IF i > Len(text)
    THEN IF n > 0 THEN [ok |-> TRUE, num |-> num, den |-> den] ELSE ParseError
    ELSE IF text[i] \in Digits
      THEN ParseFrom(text, i + 1, 10 * num + DigitVal(text[i]),
                     IF dot THEN 10 * den ELSE den, dot, n + 1)
      ELSE IF text[i] = "." /\ ~dot
        THEN ParseFrom(text, i + 1, num, den, TRUE, n)
        ELSE ParseError

float(x) ==
  CASE x.kind = "str" -> ParseFrom(x.text, 1, 0, 1, FALSE, 0)
    [] x.kind = "num" -> [ok |-> TRUE, num |-> x.tenths, den |-> 10]
    [] OTHER -> ParseError

\* The default of s.get("score", 0): the number 0.
ScoreDefault == [kind |-> "num", tenths |-> 0]

(***************************************************************************)
(* scanner/scorer.py                                                       *)
(***************************************************************************)
SEV_WEIGHTS_HighAsMedium ==
  [critical |-> 10, high |-> 4, medium |-> 4, low |-> 1]

SEV_WEIGHTS ==
  [critical |-> 10, high |-> 7, medium |-> 4, low |-> 1]

max_bad == 60

\* The loop of sev_from_cvss: the first signal on which float() does not
\* raise sets score and breaks; a signal on which it raises is passed over.
RECURSIVE FirstScore(_, _)
FirstScore(signals, i) ==
  IF i > Len(signals)
    THEN None
    ELSE LET f == float(Get(signals[i], "score", ScoreDefault))
         IN IF f.ok THEN f ELSE FirstScore(signals, i + 1)

sev_from_cvss(entry) ==
  LET score == FirstScore(Get(entry, "severity", <<>>), 1)
  IN IF score = None THEN "medium"
     ELSE IF score.num >= 9 * score.den THEN "critical"
     ELSE IF score.num >= 7 * score.den THEN "high"
     ELSE IF score.num >= 4 * score.den THEN "medium"
     ELSE "low"

\* One pass of "for v in vulns": annotate the entry, add its weight.
ScoreVulnStep(acc, v) ==
  LET sev == sev_from_cvss(v)
  IN [points |-> acc.points + SEV_WEIGHTS[sev],
      vulns  |-> Append(acc.vulns, v @@ [our_severity |-> sev])]

RECURSIVE ScoreVulnsLoop(_, _, _)
ScoreVulnsLoop(vs, i, acc) ==
  IF i > Len(vs) THEN acc
  ELSE ScoreVulnsLoop(vs, i + 1, ScoreVulnStep(acc, vs[i]))

\* SEV_WEIGHTS.get(sev, 4)
WeightOrDefault(sev) ==
  IF sev \in DOMAIN SEV_WEIGHTS THEN SEV_WEIGHTS[sev] ELSE 4

\* "points = ..." written for "points += ...".
ScoreTaggedStep_Assign(points, f) ==
  WeightOrDefault(Get(f, "severity", "medium"))

\* One pass of "for s in secrets" / "for c in configs".
ScoreTaggedStep(points, f) ==
  points + WeightOrDefault(Get(f, "severity", "medium"))

RECURSIVE ScoreTaggedLoop(_, _, _)
ScoreTaggedLoop(fs, i, points) ==
  IF i > Len(fs) THEN points
  ELSE ScoreTaggedLoop(fs, i + 1, ScoreTaggedStep(points, fs[i]))

Min(a, b) == IF a <= b THEN a ELSE b
Max(a, b) == IF a >= b THEN a ELSE b

\* The cap left out: raw = max(0, points).
Clamp_NoCap(points) == Max(0, points)

\* The cap written as a remainder: raw = points % (max_bad + 1).
Clamp_Wrap(points) == points % (max_bad + 1)

\* raw = max(0, min(points, max_bad))
Clamp(points) == Max(0, Min(points, max_bad))

\* round(num / den) for den > 0, ties to the even neighbour (Python 3).
RoundHalfEven(num, den) ==
  LET q == num \div den
      r == num % den
  IN IF 2 * r < den THEN q
     ELSE IF 2 * r > den THEN q + 1
     ELSE IF q % 2 = 0 THEN q ELSE q + 1

\* The score on a scale where 40 points are the worst.
Normalize_Forty(raw) == RoundHalfEven(100 * 40 - 100 * raw, 40)

\* int(round(100 - (raw / max_bad) * 100))
Normalize(raw) == RoundHalfEven(100 * max_bad - 100 * raw, max_bad)

score_findings(vs, ss, cs) ==
  LET afterVulns   == ScoreVulnsLoop(vs, 1, [points |-> 0, vulns |-> <<>>])
      afterSecrets == ScoreTaggedLoop(ss, 1, afterVulns.points)
      points       == ScoreTaggedLoop(cs, 1, afterSecrets)
  IN [score   |-> Normalize(Clamp(points)),
      points  |-> points,
      details |-> [vulns |-> afterVulns.vulns, secrets |-> ss, configs |-> cs]]

(***************************************************************************)
(* Inputs of score_findings, drawn from small sets.                        *)
(***************************************************************************)
Str(text) == [kind |-> "str", text |-> text]
Signal(text) == [type |-> "CVSS_V3", score |-> Str(text)]

Vuln(sigs) ==
  [package |-> "flask", version |-> "1.0", ids |-> <<"CVE-1">>,
   summary |-> "s", severity |-> sigs, fixed_hint |-> ""]

Secret(sev) ==
  [type |-> "AWS Access Key", path |-> "app.py", match |-> "AKIA",
   severity |-> sev, fix |-> "rotate"]

Config(sev) ==
  [id |-> "DEBUG_MODE", path |-> "settings.py", desc |-> "debug",
   severity |-> sev, fix |-> "unset", ref |-> "OWASP A05"]

VulnInputs == {Vuln(<<Signal(<<"9", ".", "8">>)>>), Vuln(<<Signal(<<"2", ".", "0">>)>>)}
SecretInputs == {Secret("critical"), Secret("high")}
ConfigInputs == {Config("critical"), Config("medium")}

Idle == <<>>

(***************************************************************************)
(* ScoreSpec: a caller that invokes score_findings again and again, each   *)
(* time on the previous argument lists with one finding appended to one of *)
(* them, or with two neighbours of one list exchanged.  result is the      *)
(* value returned by the last call, prevResult the one before.             *)
(***************************************************************************)
ScoreInit ==
  /\ vulns = <<>> /\ secrets = <<>> /\ configs = <<>>
  /\ result = score_findings(<<>>, <<>>, <<>>)
  /\ prevResult = None
  /\ lastCall = "first"
  /\ batch = Idle /\ flat = Idle /\ flatTwice = Idle
  /\ content = Idle /\ run = Idle

Call(vs, ss, cs, how) ==
  /\ vulns' = vs /\ secrets' = ss /\ configs' = cs
  /\ result' = score_findings(vs, ss, cs)
  /\ prevResult' = result
  /\ lastCall' = how
  /\ UNCHANGED flattenVars
  /\ UNCHANGED <<content, run>>

ScoreWithVulnAdded ==
  \E v \in VulnInputs :
    /\ Len(vulns) < MaxLen
    /\ Call(Append(vulns, v), secrets, configs, "vuln added")

ScoreWithSecretAdded ==
  \E s \in SecretInputs :
    /\ Len(secrets) < MaxLen
    /\ Call(vulns, Append(secrets, s), configs, "secret added")

ScoreWithConfigAdded ==
  \E c \in ConfigInputs :
    /\ Len(configs) < MaxLen
    /\ Call(vulns, secrets, Append(configs, c), "config added")

\* xs with the elements at i and i + 1 exchanged.
Swap(xs, i) ==
  [k \in 1..Len(xs) |-> IF k = i THEN xs[i + 1] ELSE IF k = i + 1 THEN xs[i] ELSE xs[k]]

ScoreWithVulnsPermuted ==
  \E i \in 1..(Len(vulns) - 1) :
    /\ vulns[i] # vulns[i + 1]
    /\ Call(Swap(vulns, i), secrets, configs, "permuted")

ScoreWithSecretsPermuted ==
  \E i \in 1..(Len(secrets) - 1) :
    /\ secrets[i] # secrets[i + 1]
    /\ Call(vulns, Swap(secrets, i), configs, "permuted")

ScoreWithConfigsPermuted ==
  \E i \in 1..(Len(configs) - 1) :
    /\ configs[i] # configs[i + 1]
    /\ Call(vulns, secrets, Swap(configs, i), "permuted")

ScoreNext ==
  \/ ScoreWithVulnAdded
  \/ ScoreWithSecretAdded
  \/ ScoreWithConfigAdded
  \/ ScoreWithVulnsPermuted
  \/ ScoreWithSecretsPermuted
  \/ ScoreWithConfigsPermuted

ScoreSpec == ScoreInit /\ [][ScoreNext]_vars

(***************************************************************************)
(* Claims about score_findings, checked under ScoreSpec.                   *)
(***************************************************************************)
Added == {"vuln added", "secret added", "config added"}

\* C1: whatever the three finding lists are (empty, one finding, summed
\* weights far above 60), the returned score is an integer between 0 and 100.
C1_ScoreInBounds == result.score \in 0..100

\* The summed weights exceed the cap of 60 and the score was computed.
C1_Witness ==
  /\ result.points > max_bad + 20
  /\ result.score = 0
  /\ vulns # <<>> /\ secrets # <<>> /\ configs # <<>>

\* The findings of all three lists whose severity is sev (for a
\* vulnerability, the severity score_findings attached to it).
CountSeverity(sev) ==
    Cardinality({i \in 1..Len(vulns) : result.details.vulns[i].our_severity = sev})
  + Cardinality({i \in 1..Len(secrets) : secrets[i].severity = sev})
  + Cardinality({i \in 1..Len(configs) : configs[i].severity = sev})

Abs(x) == IF x < 0 THEN -x ELSE x

\* C2: points is the uncapped sum of the weights critical=10, high=7,
\* medium=4, low=1 over every finding of the three lists; score is the
\* integer nearest to 100 - min(points, 60) / 60 * 100; no findings give
\* points 0 and score 100, one critical secret alone gives points 10 and
\* score 83, and points >= 60 give score 0.
C2_PointsAndScore ==
  /\ result.points = 10 * CountSeverity("critical") + 7 * CountSeverity("high")
                     + 4 * CountSeverity("medium") + CountSeverity("low")
  /\ Len(vulns) + Len(secrets) + Len(configs)
       = CountSeverity("critical") + CountSeverity("high")
         + CountSeverity("medium") + CountSeverity("low")
  /\ 2 * Abs(60 * result.score - (6000 - 100 * Min(result.points, 60))) < 60
  /\ (vulns = <<>> /\ secrets = <<>> /\ configs = <<>>)
       => (result.points = 0 /\ result.score = 100)
  /\ (vulns = <<>> /\ configs = <<>> /\ secrets = <<Secret("critical")>>)
       => (result.points = 10 /\ result.score = 83)
  /\ result.points >= 60 => result.score = 0

\* Findings of all four weights in the three lists, summing to 60 or more.
C2_Witness ==
  /\ result.points >= 60
  /\ result.score = 0
  /\ \A sev \in DOMAIN SEV_WEIGHTS : CountSeverity(sev) > 0

\* C3: a call with one more finding, of any severity, in any one of the
\* three lists never returns a higher score than the call without it.
C3_Monotone ==
  lastCall \in Added => result.score <= prevResult.score

\* A finding was added and the score went down.
C3_Witness ==
  /\ lastCall \in Added
  /\ result.score < prevResult.score
  /\ prevResult.score < 100

\* C4: a call on the same lists with the elements of one list permuted
\* returns the same score and the same points.
C4_OrderIndependent ==
  lastCall = "permuted" =>
    /\ result.score = prevResult.score
    /\ result.points = prevResult.points

\* Two different neighbours were exchanged and the lists scored again.
C4_Witness ==
  /\ lastCall = "permuted"
  /\ result.points > 0
  /\ Len(configs) >= 2 /\ configs[1] # configs[2]
  /\ Len(vulns) >= 2 /\ vulns[1] # vulns[2]

(***************************************************************************)
(* SevSpec: score_findings called on one vulnerability entry whose list of *)
(* severity signals grows by one signal from call to call.                 *)
(***************************************************************************)
SignalInputs ==
  { Signal(<<"9", ".", "0">>), Signal(<<"8", ".", "9">>),
    Signal(<<"7", ".", "0">>), Signal(<<"6", ".", "9">>),
    Signal(<<"4", ".", "0">>), Signal(<<"3", ".", "9">>),
    Signal(<<"1", "0">>), Signal(<<>>),
    Signal(<<"C", "V", "S", "S", ":", "3", ".", "1", "/", "A", "V", ":", "N">>),
    [type |-> "CVSS_V3", score |-> [kind |-> "num", tenths |-> 98]],
    [type |-> "CVSS_V3", score |-> [kind |-> "null"]],
    [type |-> "CVSS_V3"] }

SevInit ==
  /\ vulns = <<Vuln(<<>>)>> /\ secrets = <<>> /\ configs = <<>>
  /\ result = score_findings(<<Vuln(<<>>)>>, <<>>, <<>>)
  /\ prevResult = None
  /\ lastCall = "first"
  /\ batch = Idle /\ flat = Idle /\ flatTwice = Idle
  /\ content = Idle /\ run = Idle

ScoreWithSignalAdded ==
  \E s \in SignalInputs :
    /\ Len(vulns[1].severity) < MaxSignals
    /\ Call(<<Vuln(Append(vulns[1].severity, s))>>, secrets, configs, "signal added")

SevNext == ScoreWithSignalAdded

SevSpec == SevInit /\ [][SevNext]_vars

(***************************************************************************)
(* Claim about the severity of a vulnerability, checked under SevSpec.     *)
(***************************************************************************)
\* A signal that carries a score which reads as a number.
HasNumericScore(s) == "score" \in DOMAIN s /\ float(s.score).ok

RECURSIVE ClaimedSeverity(_, _)
ClaimedSeverity(signals, i) ==
  IF i > Len(signals) THEN "medium"
  ELSE IF HasNumericScore(signals[i])
    THEN LET f == float(signals[i].score)
         IN IF f.num >= 9 * f.den THEN "critical"
            ELSE IF f.num >= 7 * f.den THEN "high"
            ELSE IF f.num >= 4 * f.den THEN "medium"
            ELSE "low"
    ELSE ClaimedSeverity(signals, i + 1)

\* C9: the severity attached to a vulnerability is decided by the first
\* signal, in order, whose score reads as a number s (critical if s >= 9.0,
\* high if s >= 7.0, medium if s >= 4.0, low otherwise), and is medium when
\* no signal has such a score (no signals, signals without a score, scores
\* that are not numbers).
C9_SeverityFromFirstNumericSignal ==
  result.details.vulns[1].our_severity = ClaimedSeverity(vulns[1].severity, 1)

\* The same statement on the entries all of whose signals carry a score.
C9_HoldsWhenEverySignalHasScore ==
  (\A i \in 1..Len(vulns[1].severity) : "score" \in DOMAIN vulns[1].severity[i])
    => C9_SeverityFromFirstNumericSignal

(***************************************************************************)
(* scanner/osv_client.py: OSVClient.flatten_vulns                          *)
(***************************************************************************)
\* What v.get("id") returns for an advisory without the key "id" (Python's
\* None), written as a string that no advisory carries as its id.
NoId == "None"

\* "for event in rng.get('events', [])": the versions of the events that
\* carry the key "fixed", appended to acc in order.
RECURSIVE FixedOfEvents(_, _, _)
FixedOfEvents(events, i, acc) ==
  IF i > Len(events) THEN acc
  ELSE FixedOfEvents(events, i + 1,
         IF "fixed" \in DOMAIN events[i] THEN Append(acc, events[i].fixed) ELSE acc)

\* "for rng in aff.get('ranges', [])"
RECURSIVE FixedOfRanges(_, _, _)
FixedOfRanges(ranges, i, acc) ==
  IF i > Len(ranges) THEN acc
  ELSE FixedOfRanges(ranges, i + 1,
         FixedOfEvents(Get(ranges[i], "events", <<>>), 1, acc))

\* "for aff in v.get('affected', [])"
RECURSIVE FixedOfAffected(_, _, _)
FixedOfAffected(affected, i, acc) ==
  IF i > Len(affected) THEN acc
  ELSE FixedOfAffected(affected, i + 1,
         FixedOfRanges(Get(affected[i], "ranges", <<>>), 1, acc))

\* f"Upgrade to >= {fixed_versions[0]}", or "" without a fixed version.
FixedHint(fixed_versions) ==
  IF fixed_versions # <<>> THEN <<"Upgrade to >= ", fixed_versions[1]>> ELSE <<>>

\* The entry appended to flat for advisory v of the result of (pkg, ver).
FlatEntry(pkg, ver, vid, v) ==
  LET fixed_versions == FixedOfAffected(Get(v, "affected", <<>>), 1, <<>>)
  IN [package    |-> pkg,
      version    |-> ver,
      id         |-> vid,
      aliases    |-> Get(v, "aliases", <<>>),
      summary    |-> Get(v, "summary", ""),
      severity   |-> Get(v, "severity", <<>>),
      fixed      |-> fixed_versions,
      fixed_hint |-> FixedHint(fixed_versions)]

\* seen_ids kept per (package, version) instead of for the whole batch.
FlattenAdvisory_PerPackage(st, pkg, ver, v) ==
  LET vid == Get(v, "id", NoId)
  IN IF <<pkg, ver, vid>> \in st.seen_ids THEN st
     ELSE [flat     |-> Append(st.flat, FlatEntry(pkg, ver, vid, v)),
           seen_ids |-> st.seen_ids \cup {<<pkg, ver, vid>>}]

\* The check against seen_ids left out.
FlattenAdvisory_NoDedup(st, pkg, ver, v) ==
  LET vid == Get(v, "id", NoId)
  IN [flat     |-> Append(st.flat, FlatEntry(pkg, ver, vid, v)),
      seen_ids |-> st.seen_ids \cup {vid}]

\* One pass of "for v in vulns": st is [flat, seen_ids].
FlattenAdvisory(st, pkg, ver, v) ==
  LET vid == Get(v, "id", NoId)
  IN IF vid \in st.seen_ids THEN st
     ELSE [flat     |-> Append(st.flat, FlatEntry(pkg, ver, vid, v)),
           seen_ids |-> st.seen_ids \cup {vid}]

RECURSIVE FlattenAdvisories(_, _, _, _, _)
FlattenAdvisories(vs, j, pkg, ver, st) ==
  IF j > Len(vs) THEN st
  ELSE FlattenAdvisories(vs, j + 1, pkg, ver, FlattenAdvisory(st, pkg, ver, vs[j]))

\* A result without "name" or "version" is passed over instead of raising.
RECURSIVE FlattenResults_Skip(_, _, _)
FlattenResults_Skip(rs, i, st) ==
  IF i > Len(rs) THEN [raised |-> FALSE, flat |-> st.flat]
  ELSE IF "name" \notin DOMAIN rs[i] \/ "version" \notin DOMAIN rs[i]
    THEN FlattenResults_Skip(rs, i + 1, st)
    ELSE FlattenResults_Skip(rs, i + 1,
           FlattenAdvisories(Get(rs[i], "vulns", <<>>), 1,
                             rs[i].name, rs[i].version, st))

\* "for r in batch_results": r["name"] or r["version"] of a result without
\* that key raises KeyError, which ends flatten_vulns.
RECURSIVE FlattenResults(_, _, _)
FlattenResults(rs, i, st) ==
  IF i > Len(rs) THEN [raised |-> FALSE, flat |-> st.flat]
  ELSE IF "name" \notin DOMAIN rs[i] \/ "version" \notin DOMAIN rs[i]
    THEN [raised |-> TRUE, flat |-> <<>>]
    ELSE FlattenResults(rs, i + 1,
           FlattenAdvisories(Get(rs[i], "vulns", <<>>), 1,
                             rs[i].name, rs[i].version, st))

\* Only the entry added last is looked at (merging neighbours only).
KeyIndex_LastOnly(merged, pkg, ver) ==
  IF merged # <<>> /\ merged[Len(merged)].package = pkg
                  /\ merged[Len(merged)].version = ver
    THEN Len(merged) ELSE 0

\* The position in merged (a dict in insertion order) of key, or 0.
KeyIndex(merged, pkg, ver) ==
  LET hits == {k \in 1..Len(merged) :
                 merged[k].package = pkg /\ merged[k].version = ver}
  IN IF hits = {} THEN 0 ELSE CHOOSE k \in hits : TRUE

\* A later advisory of the key overwrites the summary and the fix hint.
MergeStep_Overwrite(merged, v) ==
  LET k == KeyIndex(merged, v.package, v.version)
  IN IF k = 0
       THEN Append(merged,
              [package |-> v.package, version |-> v.version, ids |-> <<v.id>>,
               aliases |-> v.aliases, summary |-> v.summary,
               severity |-> v.severity, fixed_hint |-> v.fixed_hint])
       ELSE [merged EXCEPT ![k].ids = Append(@, v.id),
                           ![k].summary = v.summary,
                           ![k].fixed_hint = v.fixed_hint]

\* A later advisory of the key overwrites the severity signals.
MergeStep_LastSeverity(merged, v) ==
  LET k == KeyIndex(merged, v.package, v.version)
  IN IF k = 0
       THEN Append(merged,
              [package |-> v.package, version |-> v.version, ids |-> <<v.id>>,
               aliases |-> v.aliases, summary |-> v.summary,
               severity |-> v.severity, fixed_hint |-> v.fixed_hint])
       ELSE [merged EXCEPT ![k].ids = Append(@, v.id),
                           ![k].severity = v.severity]

\* One pass of "for v in flat" of the merge.
MergeStep(merged, v) ==
  LET k == KeyIndex(merged, v.package, v.version)
  IN IF k = 0
       THEN Append(merged,
              [package |-> v.package, version |-> v.version, ids |-> <<v.id>>,
               aliases |-> v.aliases, summary |-> v.summary,
               severity |-> v.severity, fixed_hint |-> v.fixed_hint])
       ELSE [merged EXCEPT ![k].ids = Append(@, v.id)]

RECURSIVE MergeLoop(_, _, _)
MergeLoop(fl, i, merged) ==
  IF i > Len(fl) THEN merged
  ELSE MergeLoop(fl, i + 1, MergeStep(merged, fl[i]))

\* The entry returned for one value of merged.
Returned(v) ==
  [package |-> v.package, version |-> v.version, ids |-> v.ids,
   summary |-> v.summary, severity |-> v.severity,
   fixed_hint |-> Get(v, "fixed_hint", <<>>)]

\* The value returned, or raised: KeyError.
flatten_vulns(batch_results) ==
  LET first == FlattenResults(batch_results, 1, [flat |-> <<>>, seen_ids |-> {}])
  IN IF first.raised
       THEN [raised |-> TRUE, value |-> <<>>]
       ELSE LET merged == MergeLoop(first.flat, 1, <<>>)
            IN [raised |-> FALSE,
                value  |-> [k \in 1..Len(merged) |-> Returned(merged[k])]]

(***************************************************************************)
(* FlattenSpec: the audit of app.py on the vulnerability side.  batch is   *)
(* what query_batch returned: one result per parsed requirement, in order, *)
(* with the advisories OSV listed for it.  Every step is an audit on the   *)
(* batch of the step before with one more result, or one more advisory in  *)
(* its last result: flatten_vulns(batch), then score_findings on what it   *)
(* returned.  flatTwice is flatten_vulns on the same results fed twice.    *)
(***************************************************************************)
ResultKeys == {<<"flask", "1.0">>, <<"flask", "2.0">>, <<"jinja2", "1.0">>}

AdvisoryInputs ==
  { [id |-> "CVE-1", aliases |-> <<"GHSA-1">>, summary |-> "s1",
     severity |-> <<Signal(<<"9", ".", "8">>)>>,
     affected |-> <<[ranges |-> <<[events |-> <<[introduced |-> "0"],
                                                [fixed |-> "2.0"]>>]>>]>>],
    [id |-> "CVE-2", summary |-> "s2",
     severity |-> <<Signal(<<"2", ".", "0">>)>>,
     affected |-> <<[ranges |-> <<[events |-> <<[introduced |-> "1.0"]>>],
                                  [events |-> <<[fixed |-> "3.0"]>>]>>],
                    [ranges |-> <<[events |-> <<[fixed |-> "3.1"]>>]>>]>>],
    [summary |-> "s3", severity |-> <<Signal(<<"7", ".", "5">>)>>] }

\* The advisories of all results of b together.
RECURSIVE CountAdvisories(_, _)
CountAdvisories(b, i) ==
  IF i > Len(b) THEN 0 ELSE Len(b[i].vulns) + CountAdvisories(b, i + 1)

\* get_latest_version answers with a version, or "latest" when PyPI fails.
WithRecommended(v) == v @@ [recommended_version |-> "latest"]

\* vuln_flat of the audit: [] when the lookup raised.
VulnFlat(fl) ==
  IF fl.raised THEN <<>>
  ELSE [k \in 1..Len(fl.value) |-> WithRecommended(fl.value[k])]

Audit(b) ==
  /\ batch' = b
  /\ flat' = flatten_vulns(b)
  /\ flatTwice' = flatten_vulns(b \o b)
  /\ vulns' = VulnFlat(flat')
  /\ UNCHANGED <<secrets, configs>>
  /\ result' = score_findings(vulns', secrets, configs)
  /\ prevResult' = result
  /\ lastCall' = "audit"
  /\ UNCHANGED <<content, run>>

FlattenInit ==
  /\ batch = <<>>
  /\ flat = flatten_vulns(<<>>)
  /\ flatTwice = flatten_vulns(<<>>)
  /\ vulns = <<>> /\ secrets = <<>> /\ configs = <<>>
  /\ result = score_findings(<<>>, <<>>, <<>>)
  /\ prevResult = None
  /\ lastCall = "first"
  /\ content = Idle /\ run = Idle

AuditWithResultAdded ==
  \E key \in ResultKeys :
    /\ Len(batch) < MaxBatch
    /\ Audit(Append(batch, [name |-> key[1], version |-> key[2], vulns |-> <<>>]))

AuditWithAdvisoryAdded ==
  \E v \in AdvisoryInputs :
    /\ batch # <<>>
    /\ CountAdvisories(batch, 1) < MaxAdvisories
    /\ Audit([batch EXCEPT ![Len(batch)].vulns = Append(@, v)])

FlattenNext ==
  \/ AuditWithResultAdded
  \/ AuditWithAdvisoryAdded

FlattenSpec == FlattenInit /\ [][FlattenNext]_vars

(***************************************************************************)
(* Claims about flatten_vulns, checked under FlattenSpec.                  *)
(***************************************************************************)
\* The places (i, j) of the batch: advisory j of result i.
Places == {p \in (1..Len(batch)) \X (1..MaxAdvisories + 1) : p[2] <= Len(batch[p[1]].vulns)}

Before(p, q) == p[1] < q[1] \/ (p[1] = q[1] /\ p[2] < q[2])

IdAt(p) == Get(batch[p[1]].vulns[p[2]], "id", NoId)
KeyAt(p) == <<batch[p[1]].name, batch[p[1]].version>>
KeyOf(f) == <<f.package, f.version>>

\* An advisory survives when no earlier place of the batch has its id.
Survives(p) == \A q \in Places : Before(q, p) => IdAt(q) # IdAt(p)
Survivors == {p \in Places : Survives(p)}
Of(ps, key) == {p \in ps : KeyAt(p) = key}
SurvivorsOf(key) == Of(Survivors, key)

\* The first place of a non-empty set of places.
First(ps) == CHOOSE p \in ps : \A q \in ps : q = p \/ Before(p, q)

Out == flat.value
Positions == 1..Len(Out)

OnePerKey == \A a, b \in Positions : a # b => KeyOf(Out[a]) # KeyOf(Out[b])

\* The first result of the batch with the key.
FirstResultOf(key) ==
  CHOOSE i \in 1..Len(batch) :
    /\ <<batch[i].name, batch[i].version>> = key
    /\ \A k \in 1..(i - 1) : <<batch[k].name, batch[k].version>> # key

\* C5 as stated: at most one finding per (package, version), and the
\* findings are in the order in which their pairs first occur in the batch.
C5_OrderOfFirstOccurrence ==
  /\ OnePerKey
  /\ \A a, b \in Positions :
       a < b => FirstResultOf(KeyOf(Out[a])) < FirstResultOf(KeyOf(Out[b]))

\* C5 as amended: at most one finding per (package, version), one for each
\* pair that has a surviving advisory (one whose id no earlier advisory of
\* the batch has), in the order of the pairs' first surviving advisories.
C5_OrderOfFirstSurvivor ==
  /\ ~flat.raised
  /\ OnePerKey
  /\ LET surv == Survivors
     IN /\ {KeyOf(Out[a]) : a \in Positions} = {KeyAt(p) : p \in surv}
        /\ \A a, b \in Positions :
             a < b => Before(First(Of(surv, KeyOf(Out[a]))),
                             First(Of(surv, KeyOf(Out[b]))))

\* A pair occurs first with no surviving advisory and again later with one,
\* after another pair's finding.
C5_Witness ==
  /\ Len(Out) >= 2
  /\ \E a, b \in Positions :
       a < b /\ FirstResultOf(KeyOf(Out[b])) < FirstResultOf(KeyOf(Out[a]))

InIds(id, f) == \E k \in 1..Len(f.ids) : f.ids[k] = id

\* The first result of the batch that lists the id.
FirstListing(id) == First({p \in Places : IdAt(p) = id})[1]

\* C6: every advisory id of the batch is in the ids of the finding of the
\* first result that lists it, and in the ids of no other finding.
C6_IdOnlyWithFirstPackage ==
  \A id \in {IdAt(p) : p \in Places} :
    \E a \in Positions :
      /\ KeyOf(Out[a]) = <<batch[FirstListing(id)].name, batch[FirstListing(id)].version>>
      /\ InIds(id, Out[a])
      /\ \A b \in Positions : b # a => ~InIds(id, Out[b])

\* Two results of different packages list the same id, and the later
\* package is left with no finding.
C6_Witness ==
  \E p, q \in Places :
    /\ Before(p, q) /\ IdAt(p) = IdAt(q) /\ KeyAt(p)[1] # KeyAt(q)[1]
    /\ \A a \in Positions : KeyOf(Out[a]) # KeyAt(q)
    /\ Len(Out) >= 1

\* C7: flatten_vulns on the results fed twice returns the list it returns
\* on the results fed once.
C7_TwiceAsOnce == flatTwice = flat

\* The batch fed twice has findings, one of them merged from two advisories.
C7_Witness ==
  /\ Len(batch) >= 2
  /\ \E a \in Positions : Len(Out[a].ids) >= 2
  /\ flatTwice.value # <<>>

\* The fix hint flatten_vulns derives from one advisory.
HintOf(v) == FixedHint(FixedOfAffected(Get(v, "affected", <<>>), 1, <<>>))
AdvisoryAt(p) == batch[p[1]].vulns[p[2]]

\* C8: the ids of a finding are the ids of the surviving advisories of its
\* pair, each once, in the order met; its summary and fix hint are those of
\* the first of them.
C8_MergeCorrect ==
  \A a \in Positions :
    LET f  == Out[a]
        ps == SurvivorsOf(KeyOf(f))
    IN /\ ps # {}
       /\ Len(f.ids) = Cardinality(ps)
       /\ {f.ids[k] : k \in 1..Len(f.ids)} = {IdAt(p) : p \in ps}
       /\ \A p, q \in ps :
            Before(p, q) =>
              \E k, m \in 1..Len(f.ids) :
                k < m /\ f.ids[k] = IdAt(p) /\ f.ids[m] = IdAt(q)
       /\ f.summary = Get(AdvisoryAt(First(ps)), "summary", "")
       /\ f.fixed_hint = HintOf(AdvisoryAt(First(ps)))

\* CVE-1 then CVE-2 for one pair, with different summaries and fix hints.
C8_Witness ==
  \E a \in Positions :
    /\ Out[a].ids = <<"CVE-1", "CVE-2">>
    /\ Out[a].summary = "s1"
    /\ Out[a].fixed_hint = <<"Upgrade to >= ", "2.0">>

\* An advisory of the batch has no "id".
SomeAdvisoryWithoutId == \E p \in Places : "id" \notin DOMAIN AdvisoryAt(p)

\* C10: flatten_vulns fails on a batch with an advisory that has no id; no
\* finding is emitted and no score computed from such an advisory.
C10_FailFastOnMissingId ==
  SomeAdvisoryWithoutId =>
    /\ flat.raised
    /\ \A a \in Positions : ~InIds(NoId, Out[a])
    /\ result.points = 0

(***************************************************************************)
(* MalformedSpec: flatten_vulns, and the audit around it, on batches in    *)
(* which a result may lack its "name" or its "version".                    *)
(***************************************************************************)
WellFormedResult == [name |-> "flask", version |-> "1.0", vulns |-> <<>>]

MalformedResults ==
  { [version |-> "1.0", vulns |-> <<>>], [name |-> "flask", vulns |-> <<>>] }

AuditWithWellFormedResultAdded ==
  /\ Len(batch) < MaxBatch
  /\ Audit(Append(batch, WellFormedResult))

AuditWithMalformedResultAdded ==
  \E r \in MalformedResults :
    /\ Len(batch) < MaxBatch
    /\ Audit(Append(batch, r))

AuditWithIdentifiedAdvisoryAdded ==
  \E v \in {a \in AdvisoryInputs : "id" \in DOMAIN a} :
    /\ batch # <<>>
    /\ CountAdvisories(batch, 1) < MaxAdvisories
    /\ Audit([batch EXCEPT ![Len(batch)].vulns = Append(@, v)])

MalformedNext ==
  \/ AuditWithWellFormedResultAdded
  \/ AuditWithMalformedResultAdded
  \/ AuditWithIdentifiedAdvisoryAdded

MalformedSpec == FlattenInit /\ [][MalformedNext]_vars

(***************************************************************************)
(* Claim about malformed results, checked under MalformedSpec.             *)
(***************************************************************************)
Malformed(r) == "name" \notin DOMAIN r \/ "version" \notin DOMAIN r

\* C11: flatten_vulns raises, and returns no finding at all, exactly when
\* some result of the batch, at whatever position, has no "name" or no
\* "version"; on the empty batch it returns the empty list and raises nothing.
C11_FailsOnMalformedResult ==
  /\ flat.raised <=> \E i \in 1..Len(batch) : Malformed(batch[i])
  /\ flat.raised => flat.value = <<>>
  /\ batch = <<>> => flat = [raised |-> FALSE, value |-> <<>>]

\* The malformed result is the last of the batch, after a well-formed
\* result whose advisory would have given a finding.
C11_Witness ==
  /\ flat.raised
  /\ Len(batch) >= 2
  /\ Malformed(batch[Len(batch)])
  /\ ~Malformed(batch[1]) /\ batch[1].vulns # <<>>

(***************************************************************************)
(* UnknownSpec: score_findings on lists in which a finding may carry no    *)
(* severity, or one that is none of critical, high, medium, low.           *)
(***************************************************************************)
VulnWithoutSeverity ==
  [package |-> "flask", version |-> "1.0", ids |-> <<"CVE-1">>,
   summary |-> "s", fixed_hint |-> ""]

UnknownVulnInputs ==
  { VulnWithoutSeverity,
    Vuln(<<>>),
    Vuln(<<Signal(<<"C", "V", "S", "S", ":", "3", ".", "1", "/", "A", "V", ":", "N">>)>>),
    Vuln(<<[type |-> "CVSS_V3"]>>),
    Vuln(<<Signal(<<"9", ".", "8">>)>>) }

UnknownSecretInputs ==
  { [type |-> "AWS Access Key", path |-> "app.py", match |-> "AKIA", fix |-> "rotate"],
    Secret("bogus"),
    Secret("high") }

UnknownConfigInputs ==
  { [id |-> "DEBUG_MODE", path |-> "settings.py", desc |-> "debug",
     fix |-> "unset", ref |-> "OWASP A05"],
    Config("HIGH"),
    Config("critical") }

ScoreWithUnknownVulnAdded ==
  \E v \in UnknownVulnInputs :
    /\ Len(vulns) < MaxUnknown
    /\ Call(Append(vulns, v), secrets, configs, "vuln added")

ScoreWithUnknownSecretAdded ==
  \E s \in UnknownSecretInputs :
    /\ Len(secrets) < MaxUnknown
    /\ Call(vulns, Append(secrets, s), configs, "secret added")

ScoreWithUnknownConfigAdded ==
  \E c \in UnknownConfigInputs :
    /\ Len(configs) < MaxUnknown
    /\ Call(vulns, secrets, Append(configs, c), "config added")

UnknownNext ==
  \/ ScoreWithUnknownVulnAdded
  \/ ScoreWithUnknownSecretAdded
  \/ ScoreWithUnknownConfigAdded

UnknownSpec == ScoreInit /\ [][UnknownNext]_vars

(***************************************************************************)
(* Claim about unknown severities, checked under UnknownSpec.              *)
(***************************************************************************)
Levels == {"critical", "high", "medium", "low"}

\* The weight the claim gives a secret or config finding.
ClaimedTaggedWeight(f) ==
  IF "severity" \in DOMAIN f /\ f.severity \in Levels
    THEN SEV_WEIGHTS[f.severity] ELSE 4

\* The weight the claim gives a vulnerability: that of its first numeric
\* signal, 4 when it has none.
ClaimedVulnWeight(v) ==
  SEV_WEIGHTS[ClaimedSeverity(Get(v, "severity", <<>>), 1)]

\* The sum of a sequence of numbers.
RECURSIVE SumSeq(_, _)
SumSeq(ns, i) == IF i > Len(ns) THEN 0 ELSE ns[i] + SumSeq(ns, i + 1)

\* C12: score_findings returns a result on every input, and a finding whose
\* severity is absent or none of critical/high/medium/low counts 4.
C12_UnknownCountsMedium ==
  /\ result.score \in 0..100
  /\ result.points
       = SumSeq([i \in 1..Len(vulns) |-> ClaimedVulnWeight(vulns[i])], 1)
         + SumSeq([i \in 1..Len(secrets) |-> ClaimedTaggedWeight(secrets[i])], 1)
         + SumSeq([i \in 1..Len(configs) |-> ClaimedTaggedWeight(configs[i])], 1)

\* A signal of a vulnerability that carries no score.
HasScorelessSignal(v) ==
  \E i \in 1..Len(Get(v, "severity", <<>>)) : "score" \notin DOMAIN v.severity[i]

\* The same statement on the inputs without a signal that carries no score.
C12_HoldsWithoutScorelessSignal ==
  (\A i \in 1..Len(vulns) : ~HasScorelessSignal(vulns[i])) => C12_UnknownCountsMedium


(***************************************************************************)
(* secret_rules.py: scan_text.  A text is a sequence of characters.  Two   *)
(* of the seven PATTERNS are modelled, the first of the list and the only  *)
(* one whose match can be eight characters or shorter; the texts scanned   *)
(* below are drawn from an alphabet over which no other pattern matches    *)
(* (none has "aws", "AIza", "xox", "-----BEGIN" or "password").            *)
(***************************************************************************)
MaxChunks == 4

LowerLetters ==
  {"a", "b", "c", "d", "e", "f", "g", "h", "i", "j", "k", "l", "m",
   "n", "o", "p", "q", "r", "s", "t", "u", "v", "w", "x", "y", "z"}

UpperLetters ==
  {"A", "B", "C", "D", "E", "F", "G", "H", "I", "J", "K", "L", "M",
   "N", "O", "P", "Q", "R", "S", "T", "U", "V", "W", "X", "Y", "Z"}

\* [0-9A-Z]
KeyChars == Digits \cup UpperLetters

\* [A-Za-z0-9\-._~+/]
TokenChars ==
  LowerLetters \cup UpperLetters \cup Digits \cup {"-", ".", "_", "~", "+", "/"}

\* \s
Whitespace == {" ", "\t", "\n", "\r", "\f"}

\* (?i)bearer: the characters accepted at each position of the word.
BearerWord ==
  <<{"b", "B"}, {"e", "E"}, {"a", "A"}, {"r", "R"}, {"e", "E"}, {"r", "R"}>>

\* The last position of the longest run of characters of cs that starts at
\* position i of txt; i - 1 when the run is empty.
RECURSIVE RunEnd(_, _, _)
RunEnd(txt, i, cs) ==
  IF i <= Len(txt) /\ txt[i] \in cs THEN RunEnd(txt, i + 1, cs) ELSE i - 1

\* AKIA[0-9A-Z]{16} matched at position i: the last position of the match,
\* 0 when it does not match there.
AwsAccessKeyEnd(txt, i) ==
  IF /\ i + 19 <= Len(txt)
     /\ SubSeq(txt, i, i + 3) = <<"A", "K", "I", "A">>
     /\ \A k \in 4..19 : txt[i + k] \in KeyChars
    THEN i + 19
    ELSE 0

\* (?i)bearer\s+[A-Za-z0-9\-._~+/]+=* matched at position i.  The three
\* repetitions are greedy and their character sets are disjoint, so giving
\* characters back never turns a failure into a match.
BearerTokenEnd(txt, i) ==
  IF /\ i + 5 <= Len(txt)
     /\ \A k \in 1..6 : txt[i + k - 1] \in BearerWord[k]
    THEN LET spaces == RunEnd(txt, i + 6, Whitespace)
             token == RunEnd(txt, spaces + 1, TokenChars)
         IN  IF spaces < i + 6 \/ token < spaces + 1
               THEN 0
               ELSE RunEnd(txt, token + 1, {"="})
    ELSE 0

PATTERNS ==
  <<"AWS Access Key", "Generic Bearer Token">>

MatchEnd(name, txt, i) ==
  CASE name = "AWS Access Key" -> AwsAccessKeyEnd(txt, i)
    [] name = "Generic Bearer Token" -> BearerTokenEnd(txt, i)

\* rx.finditer(text): the matches from left to right, not overlapping.
RECURSIVE finditer(_, _, _, _)
finditer(name, txt, i, found) ==
  IF i > Len(txt)
    THEN found
    ELSE LET e == MatchEnd(name, txt, i)
         IN  IF e >= i
               THEN finditer(name, txt, e + 1,
                             Append(found, [start |-> i, end |-> e]))
               ELSE finditer(name, txt, i + 1, found)

\* The character U+2026 that the mask ends with.
Ellipsis == "U+2026"

\* m.group(0)[:8] + ellipsis
Mask(matched) ==
  SubSeq(matched, 1, Min(8, Len(matched))) \o <<Ellipsis>>

fix_for(name) ==
  CASE name = "AWS Access Key" ->
         "Rotate the key, invalidate the old one, and move to environment variables or a secret manager."
    [] name = "Generic Bearer Token" ->
         "Revoke the token and load it at runtime via environment variables."
    [] OTHER ->
         "Remove from source, rotate, and load via env/secret manager."

\* The names of PATTERNS that contain "Private Key".
PrivateKeyNames == {"Private Key"}

SecretFinding(name, path, txt, m) ==
  [type |-> name,
   path |-> path,
   match |-> Mask(SubSeq(txt, m.start, m.end)),
   severity |-> IF name \in PrivateKeyNames THEN "critical" ELSE "high",
   fix |-> fix_for(name)]

RECURSIVE ScanPatterns(_, _, _, _)
ScanPatterns(path, txt, k, findings) ==
  IF k > Len(PATTERNS)
    THEN findings
    ELSE LET ms == finditer(PATTERNS[k], txt, 1, <<>>)
         IN  ScanPatterns(path, txt, k + 1,
               findings \o [j \in 1..Len(ms) |->
                              SecretFinding(PATTERNS[k], path, txt, ms[j])])

scan_text(path, txt) == ScanPatterns(path, txt, 1, <<>>)

(***************************************************************************)
(* The scan of one project file whose content grows chunk by chunk: each   *)
(* step is the scan of app.py's upload loop on the file as it then is.     *)
(* content holds the chunks, Text joins them into the decoded text.        *)
(***************************************************************************)
RECURSIVE Text(_)
Text(chunks) ==
  IF chunks = <<>> THEN <<>> ELSE Head(chunks) \o Text(Tail(chunks))

Chunks ==
  { <<"B", "e", "a", "r", "e", "r">>,
    <<"b", "e", "a", "r", "e", "r">>,
    <<" ">>,
    <<"x">>,
    <<"=">>,
    <<"A", "K", "I", "A">>,
    <<"0", "1", "2", "3", "4", "5", "6", "7", "8", "9",
      "A", "B", "C", "D", "E", "F">> }

ScannedPath == "settings.py"

ScanInit ==
  /\ content = <<>>
  /\ secrets = scan_text(ScannedPath, <<>>)
  /\ vulns = <<>> /\ configs = <<>>
  /\ result = None /\ prevResult = None /\ lastCall = "first"
  /\ batch = Idle /\ flat = Idle /\ flatTwice = Idle
  /\ run = Idle

ScanWithChunkAdded ==
  \E c \in Chunks :
    /\ Len(content) < MaxChunks
    /\ content' = Append(content, c)
    /\ secrets' = scan_text(ScannedPath, Text(content'))
    /\ UNCHANGED <<vulns, configs, result, prevResult, lastCall,
                   batch, flat, flatTwice, run>>

ScanNext == ScanWithChunkAdded

ScanSpec == ScanInit /\ [][ScanNext]_vars

\* The matched texts in the order of the findings of scan_text.
RECURSIVE MatchedFrom(_, _)
MatchedFrom(txt, k) ==
  IF k > Len(PATTERNS)
    THEN <<>>
    ELSE LET ms == finditer(PATTERNS[k], txt, 1, <<>>)
         IN  [j \in 1..Len(ms) |-> SubSeq(txt, ms[j].start, ms[j].end)]
               \o MatchedFrom(txt, k + 1)

Matched == MatchedFrom(Text(content), 1)

\* needle occurs in hay as a contiguous run of characters.
Contains(hay, needle) ==
  \E k \in 1..(Len(hay) - Len(needle) + 1) :
    SubSeq(hay, k, k + Len(needle) - 1) = needle

\* C13: the masked "match" of a finding of scan_text never contains the whole
\* matched secret, whatever the length of the match, matches of eight
\* characters or fewer included.
C13_MaskHidesWholeMatch ==
  /\ Len(secrets) = Len(Matched)
  /\ \A i \in 1..Len(secrets) : ~Contains(secrets[i].match, Matched[i])

\* The same statement for the matches longer than eight characters only.
C13_MaskHidesLongMatch ==
  /\ Len(secrets) = Len(Matched)
  /\ \A i \in 1..Len(secrets) :
       Len(Matched[i]) > 8 => ~Contains(secrets[i].match, Matched[i])


(***************************************************************************)
(* app.py: the handler of "Generate Cyber Health Score" on an uploaded     *)
(* project.  batch holds what OSV has for the pinned requirements, one     *)
(* result per item, so that items is empty exactly when batch is; the      *)
(* lookup either returns it or raises.  A result that flatten_vulns cannot *)
(* read stands for any answer of the service on which flatten_vulns        *)
(* raises.  run records what the last click did; every change of the       *)
(* uploads reruns the script without the click and so shows no result.     *)
(***************************************************************************)
MaxInputs == 2

\* except Exception: the warning is shown and vuln_flat keeps its [].
OnLookupError_Propagate(raiser) ==
  [lookup |-> raiser, aborted |-> TRUE, warned |-> FALSE, vuln_flat |-> <<>>]

OnLookupError(raiser) ==
  [lookup |-> raiser, aborted |-> FALSE, warned |-> TRUE, vuln_flat |-> <<>>]

\* The block under "if items:", queryRaises telling whether query_batch
\* raises (network error, HTTP error status, answer that is not JSON).
Lookup(b, queryRaises) ==
  IF b = <<>>
    THEN [lookup |-> "skipped", aborted |-> FALSE, warned |-> FALSE,
          vuln_flat |-> <<>>]
    ELSE IF queryRaises
      THEN OnLookupError("query_batch")
      ELSE LET fl == flatten_vulns(b)
           IN  IF fl.raised
                 THEN OnLookupError("flatten_vulns")
                 ELSE [lookup |-> "answered", aborted |-> FALSE,
                       warned |-> FALSE, vuln_flat |-> VulnFlat(fl)]

\* One call of score_findings as the run records it.
ScoreCall(vs, ss, cs) == [vulns |-> vs, secrets |-> ss, configs |-> cs]

GenerateScore(queryRaises) ==
  LET out == Lookup(batch, queryRaises)
  IN  /\ vulns' = out.vuln_flat
      /\ flat' = IF out.lookup \in {"answered", "flatten_vulns"}
                   THEN flatten_vulns(batch) ELSE Idle
      /\ run' = [lookup |-> out.lookup,
                 aborted |-> out.aborted,
                 warned |-> out.warned,
                 calls |-> IF out.aborted THEN <<>>
                           ELSE <<ScoreCall(out.vuln_flat, secrets, configs)>>]
      /\ result' = IF out.aborted THEN None
                   ELSE score_findings(out.vuln_flat, secrets, configs)
      /\ lastCall' = "audit"
      /\ UNCHANGED <<batch, secrets, configs, prevResult, flatTwice, content>>

RunResults ==
  { [name |-> "flask", version |-> "1.0",
     vulns |-> <<[id |-> "CVE-1", summary |-> "s1",
                  severity |-> <<Signal(<<"9", ".", "8">>)>>]>>],
    [name |-> "jinja2", version |-> "1.0", vulns |-> <<>>],
    [version |-> "1.0", vulns |-> <<>>] }

RunInit ==
  /\ batch = <<>> /\ secrets = <<>> /\ configs = <<>>
  /\ vulns = <<>> /\ flat = Idle /\ flatTwice = Idle
  /\ result = None /\ prevResult = None /\ run = None
  /\ lastCall = "first"
  /\ content = Idle

\* The script run that follows a change of the uploads: no click, no result.
Rerun(b, ss, cs) ==
  /\ batch' = b /\ secrets' = ss /\ configs' = cs
  /\ vulns' = <<>> /\ flat' = Idle
  /\ result' = None /\ run' = None
  /\ lastCall' = "upload"
  /\ UNCHANGED <<prevResult, flatTwice, content>>

UploadWithRequirementAdded ==
  \E r \in RunResults :
    /\ Len(batch) < MaxInputs
    /\ Rerun(Append(batch, r), secrets, configs)

UploadWithSecretAdded ==
  \E f \in SecretInputs :
    /\ Len(secrets) < MaxInputs
    /\ Rerun(batch, Append(secrets, f), configs)

UploadWithConfigAdded ==
  \E f \in ConfigInputs :
    /\ Len(configs) < MaxInputs
    /\ Rerun(batch, secrets, Append(configs, f))

ClickWithLookupAnswering == GenerateScore(FALSE)

ClickWithLookupFailing == batch # <<>> /\ GenerateScore(TRUE)

RunNext ==
  \/ UploadWithRequirementAdded
  \/ UploadWithSecretAdded
  \/ UploadWithConfigAdded
  \/ ClickWithLookupAnswering
  \/ ClickWithLookupFailing

RunSpec == RunInit /\ [][RunNext]_vars

LookupFailed == run # None /\ run.lookup \in {"query_batch", "flatten_vulns"}

\* C14: when the vulnerability lookup fails (query_batch or flatten_vulns
\* raises), the run is not aborted: score_findings is invoked exactly once,
\* with [] for the vulnerabilities and the full secret and config lists, and
\* a score is produced.
C14_LookupFailureKeepsScoring ==
  LookupFailed =>
    /\ ~run.aborted
    /\ run.warned
    /\ run.calls = <<ScoreCall(<<>>, secrets, configs)>>
    /\ result = score_findings(<<>>, secrets, configs)
    /\ result.score \in 0..100
    /\ result.details.vulns = <<>>
    /\ result.details.secrets = secrets
    /\ result.details.configs = configs

\* flatten_vulns raised on a project with secrets and misconfigurations,
\* which alone decide the score.
C14_FlattenFailureSeen ==
  /\ LookupFailed
  /\ run.lookup = "flatten_vulns"
  /\ Len(run.calls) = 1
  /\ secrets # <<>> /\ configs # <<>>
  /\ result # None /\ result.points > 0 /\ result.score < 100

\* query_batch raised on such a project, with an answer that flatten_vulns
\* would have read.
C14_Witness ==
  /\ LookupFailed
  /\ run.lookup = "query_batch"
  /\ \A i \in 1..Len(batch) : ~Malformed(batch[i])
  /\ secrets # <<>> /\ configs # <<>>
  /\ result # None /\ result.points > 0


(***************************************************************************)
(* The pipeline flatten_vulns, then score_findings, under FlattenSpec,     *)
(* where the audit has no secret and no misconfiguration.                  *)
(***************************************************************************)
KeysWithSurvivor == {KeyAt(p) : p \in Survivors}

\* The weight that the severity signals of advisory v alone give.
WeightOfSignals(v) ==
  SEV_WEIGHTS[sev_from_cvss([severity |-> Get(v, "severity", <<>>)])]

\* The place of the advisory that the last step added, when it added one:
\* a step that adds a result leaves the last result without advisories.
LastPlace == <<Len(batch), Len(batch[Len(batch)].vulns)>>

AddedToScoredPair ==
  /\ batch # <<>>
  /\ batch[Len(batch)].vulns # <<>>
  /\ \E q \in SurvivorsOf(KeyAt(LastPlace)) : Before(q, LastPlace)

\* C15: in flatten_vulns followed by score_findings every (package, version)
\* pair contributes exactly one weight to points, the one of the severity
\* signals of its first surviving advisory; an advisory after the first of
\* its pair changes neither points nor score.
C15_WeightOfFirstSurvivor ==
  /\ Len(result.details.vulns) = Cardinality(KeysWithSurvivor)
  /\ \A key \in KeysWithSurvivor :
       \E a \in 1..Len(vulns) :
         /\ KeyOf(vulns[a]) = key
         /\ \A b \in 1..Len(vulns) : KeyOf(vulns[b]) = key => b = a
         /\ SEV_WEIGHTS[result.details.vulns[a].our_severity]
              = WeightOfSignals(AdvisoryAt(First(SurvivorsOf(key))))
  /\ result.points =
       SumSeq([a \in 1..Len(vulns) |->
                 SEV_WEIGHTS[result.details.vulns[a].our_severity]], 1)
  /\ AddedToScoredPair =>
       /\ result.points = prevResult.points
       /\ result.score = prevResult.score

\* A low advisory was added after the critical one of its pair, and another
\* pair is scored too.
C15_Witness ==
  /\ AddedToScoredPair
  /\ WeightOfSignals(AdvisoryAt(LastPlace)) = 1
  /\ WeightOfSignals(AdvisoryAt(First(SurvivorsOf(KeyAt(LastPlace))))) = 10
  /\ Survives(LastPlace)
  /\ Cardinality(KeysWithSurvivor) = 2
  /\ result.points > 10


(***************************************************************************)
(* The rounding of the score, under ScoreSpec.                             *)
(***************************************************************************)
\* round(num / den) for den > 0, ties to the greater neighbour.
RoundHalfUp(num, den) == (2 * num + den) \div (2 * den)

\* 100 - raw * 100 / max_bad as the fraction Numerator(raw) / max_bad.
Numerator(raw) == 100 * max_bad - 100 * raw

\* The fraction has fractional part exactly one half.
OnTie(raw) == 2 * (Numerator(raw) % max_bad) = max_bad

\* C16: for every value of points, with clamped = min(points, 60), the
\* quantity 100 - clamped * 100 / 60 never has the fractional part one half,
\* and rounding half to even and rounding half up give the same score.
C16_NeverOnRoundingTie ==
  /\ ~OnTie(Clamp(result.points))
  /\ result.score = RoundHalfUp(Numerator(Clamp(result.points)), max_bad)
  /\ \A raw \in 0..max_bad :
       /\ ~OnTie(raw)
       /\ Normalize(raw) = RoundHalfUp(Numerator(raw), max_bad)

\* A score that was rounded up from a fractional part of two thirds, and one
\* step before a score that was rounded down from one third.
C16_Witness ==
  /\ prevResult # None
  /\ 3 * (Numerator(Clamp(result.points)) % max_bad) = 2 * max_bad
  /\ result.score = (Numerator(Clamp(result.points)) \div max_bad) + 1
  /\ 3 * (Numerator(Clamp(prevResult.points)) % max_bad) = max_bad
  /\ prevResult.score = Numerator(Clamp(prevResult.points)) \div max_bad

====
